---- MODULE Spec2Model ----
(***************************************************************************)
(* vmi-unpack: the VAD-directed memory dumper (vad_dump_process,           *)
(* vad_iterator, handle_node, extract_field_value) and the volatility      *)
(* output path (volatility_callback_vaddump, write_file).                  *)
(*                                                                         *)
(* Machine words are scaled down: an addr_t / uint64_t has AddrBits bits   *)
(* instead of 64 and a page has VpnShift offset bits instead of 12, so     *)
(* that every wrap-around of the C arithmetic happens inside the model.    *)
(* Allocation (malloc / realloc) is assumed to succeed and the C stack is  *)
(* assumed deep enough for the recursion on a finite tree.                 *)
(***************************************************************************)
EXTENDS Integers, Sequences, FiniteSets, TLC

VARIABLES
    mem,        \* guest memory: VAD node address -> the four addr_t fields
    event,      \* the triggering event: pid and x86_regs->rip
    pc,         \* position of vad_dump_process: "entry", "iter", "done", "overflow"
    stack,      \* activation records of vad_iterator, innermost last
    dump,       \* the dump_layer_t under construction
    log,        \* lines written to stderr, oldest first
    queue,      \* dumps handed to queue_vads_to_dump, oldest first
    visited,    \* history: the nodes passed to the visitor, in call order
    reads,      \* history: the vmi_read_va calls, bytes asked and bytes read
    fx,         \* one activation of extract_field_value
    wf,         \* one activation of write_file
    dump_count, \* output.c: int dump_count
    cb,         \* the activation of volatility_callback_vaddump
    loop,       \* what the event loop thread is doing
    shell,      \* the shell command handed to queue_and_wait_for_shell_cmd
    files,      \* output_dir: the vadinfo json files
    calls,      \* history: invocations of volatility_callback_vaddump so far
    artifacts   \* history: the steps of each invocation, with sequence number and pid

walkVars == <<mem, event, pc, stack, dump, log, queue, visited, reads>>
outputVars == <<dump_count, cb, loop, shell, files, calls, artifacts>>
vars == <<walkVars, fx, wf, outputVars>>

------------------------------------------------------------------------------
(* Bounds and scaled machine parameters *)

MaxNodes == 3
SEG_COUNT_MAX == 2
AddrBits == 3
VpnShift == 1

Pow2(n) == 2 ^ n
AddrMod == Pow2(AddrBits)
Words == 0 .. (AddrMod - 1)

Nodes == 1 .. MaxNodes
NullPtr == 0
Unreadable == -1

\* the largest VPN whose shift by VpnShift does not wrap
MaxVpn == Pow2(AddrBits - VpnShift) - 1

\* x << k on an AddrBits-wide unsigned word
Shl(x, k) == (x * Pow2(k)) % AddrMod
\* a - b on an AddrBits-wide unsigned word
WordSub(a, b) == (a - b + AddrMod) % AddrMod

------------------------------------------------------------------------------
(* Guest reads *)

\* vmi_read_addr_va(vmi, node + offset, 0, &out) with out initialised to 0:
\* a failed read leaves the initialiser in place.
vmi_read_addr_va(node, field) ==
    IF mem[node][field] = Unreadable
    THEN [ok |-> FALSE, val |-> 0]
    ELSE [ok |-> TRUE, val |-> mem[node][field]]

\* vmi_read_va(vmi, base_va, pid, size, buf, &read_size): the byte counts the
\* guest read may report, one for each outcome: nothing read, part of the
\* range read, all of it read
vmi_read_va(size) == {0, size \div 2, size}

------------------------------------------------------------------------------
(* handle_node *)

MsgCap == "handle_node: skipping VAD, SEG_COUNT_MAX reached."
MsgLeft == "vad_iterator: Left node could not be read"
MsgRight == "vad_iterator: Right node could not be read"

\* Slots of the heap at dump->segments: the array proper is 0..SEG_COUNT_MAX-1,
\* the slots behind it are the memory an unchecked index would overwrite.
Slots == 0 .. (IF MaxNodes > SEG_COUNT_MAX THEN MaxNodes ELSE SEG_COUNT_MAX) - 1

\* mutant: the cap test off by one
CapReachedOffByOne(d) == d.segment_count > SEG_COUNT_MAX

\* if (dump->segment_count >= SEG_COUNT_MAX)
CapReached(d) == d.segment_count >= SEG_COUNT_MAX

ShiftVpn(vpn) == Shl(vpn, VpnShift)

\* mutant: skip only when both ends are zero
ZeroRangeBoth(start, end) == start = 0 /\ end = 0

\* if (!start || !end) return;
ZeroRange(start, end) == start = 0 \/ end = 0

\* size recorded after the read: shrunk to read_size on a short read
SizeAfterRead(size, read_size) == IF read_size < size THEN read_size ELSE size

\* stderr after the guest read of a segment
LogAfterRead(l, size, read_size) == l

NewSegment(base_va, size, read_size) ==
    [base_va |-> base_va,
     size |-> SizeAfterRead(size, read_size),
     va_size |-> size]

\* The effect of handle_node(vmi, node, dump) for one outcome read_size of the
\* guest read: the new <<dump, log>>. The filename, vadtype, isprivate and
\* protection it stores in the new slot are not part of the state: they change
\* neither segment_count nor base_va, size or va_size.
handle_node(node, d, l, read_size) ==
    IF CapReached(d) THEN <<d, Append(l, MsgCap)>>
    ELSE LET rs == vmi_read_addr_va(node, "startingvpn")
             start == ShiftVpn(rs.val)
             re == vmi_read_addr_va(node, "endingvpn")
             end == ShiftVpn(re.val)
             size == WordSub(end, start)
         IN  IF ~rs.ok THEN <<d, l>>
             ELSE IF ~re.ok THEN <<d, l>>
             ELSE IF ZeroRange(start, end) THEN <<d, l>>
             ELSE <<[d EXCEPT !.segments[d.segment_count] =
                                  {NewSegment(start, size, read_size)},
                              !.segment_count = d.segment_count + 1],
                    LogAfterRead(l, size, read_size)>>

\* Whether handle_node gets as far as its vmi_read_va call
ReachesRead(node, d) ==
    LET rs == vmi_read_addr_va(node, "startingvpn")
        re == vmi_read_addr_va(node, "endingvpn")
    IN  /\ ~CapReached(d)
        /\ rs.ok /\ re.ok
        /\ ~ZeroRange(ShiftVpn(rs.val), ShiftVpn(re.val))

\* The size handle_node asks vmi_read_va for (0 when it returns before)
RequestSize(node, d) ==
    IF ReachesRead(node, d)
    THEN WordSub(ShiftVpn(vmi_read_addr_va(node, "endingvpn").val),
                 ShiftVpn(vmi_read_addr_va(node, "startingvpn").val))
    ELSE 0

------------------------------------------------------------------------------
(* vad_dump_process and vad_iterator *)

\* mutant: the left read uses the right child's offset
LeftFieldSwapped == "rightchild"

\* process_vmi_windows_rekall.mmvad_leftchild / mmvad_rightchild
LeftField == "leftchild"
RightField == "rightchild"

\* activations of vad_iterator the C stack has room for
MaxDepth == 5

Frame(node, at) == [node |-> node, at |-> at]
Top == stack[Len(stack)]
Pop == SubSeq(stack, 1, Len(stack) - 1)
SetTop(at) == [stack EXCEPT ![Len(stack)].at = at]

VadRoot == 1

\* vad_dump_process up to the call of vad_iterator
VadDumpProcessEnter ==
    /\ pc = "entry"
    /\ dump' = [pid |-> event.pid, rip |-> event.rip, segment_count |-> 0,
                segments |-> [i \in Slots |-> {}]]
    /\ stack' = <<Frame(VadRoot, "left")>>
    /\ pc' = "iter"
    /\ UNCHANGED <<mem, event, log, queue, visited, reads, fx, wf, outputVars>>

\* mutant: a failed read of the left child ends the call
IterLeftReturnOnFail ==
    /\ pc = "iter" /\ stack # <<>> /\ stack[Len(stack)].at = "left"
    /\ LET r == vmi_read_addr_va(stack[Len(stack)].node, "leftchild")
       IN  /\ log' = IF r.ok THEN log ELSE Append(log, MsgLeft)
           /\ stack' = IF ~r.ok THEN SubSeq(stack, 1, Len(stack) - 1)
                       ELSE IF r.val # NullPtr
                       THEN Append([stack EXCEPT ![Len(stack)].at = "visit"],
                                   [node |-> r.val, at |-> "left"])
                       ELSE [stack EXCEPT ![Len(stack)].at = "visit"]
    /\ UNCHANGED <<mem, event, pc, dump, queue, visited, reads, fx, wf, outputVars>>

\* vad_iterator: read the left child, log a failure, descend if non-zero
IterLeft ==
    /\ pc = "iter" /\ stack # <<>> /\ Top.at = "left"
    /\ LET r == vmi_read_addr_va(Top.node, LeftField)
       IN  /\ log' = IF r.ok THEN log ELSE Append(log, MsgLeft)
           /\ stack' = IF r.val # NullPtr
                       THEN Append(SetTop("visit"), Frame(r.val, "left"))
                       ELSE SetTop("visit")
    /\ Len(stack') <= MaxDepth
    /\ UNCHANGED <<mem, event, pc, dump, queue, visited, reads, fx, wf, outputVars>>

\* vad_iterator: func(vmi, node, data)
IterVisit ==
    /\ pc = "iter" /\ stack # <<>> /\ Top.at = "visit"
    /\ \E read_size \in vmi_read_va(RequestSize(Top.node, dump)) :
          LET r == handle_node(Top.node, dump, log, read_size)
          IN  /\ dump' = r[1]
              /\ log' = r[2]
              /\ reads' = IF ReachesRead(Top.node, dump)
                          THEN Append(reads, [asked |-> RequestSize(Top.node, dump),
                                              got |-> read_size])
                          ELSE reads
    /\ visited' = Append(visited, Top.node)
    /\ stack' = SetTop("right")
    /\ UNCHANGED <<mem, event, pc, queue, fx, wf, outputVars>>

\* mutant: once the cap is reached the walk does not descend to the right
IterRightStopAtCap ==
    /\ pc = "iter" /\ stack # <<>> /\ stack[Len(stack)].at = "right"
    /\ LET r == vmi_read_addr_va(stack[Len(stack)].node, "rightchild")
       IN  /\ log' = IF r.ok THEN log ELSE Append(log, MsgRight)
           /\ stack' = IF r.val # NullPtr /\ dump.segment_count < SEG_COUNT_MAX
                       THEN Append([stack EXCEPT ![Len(stack)].at = "return"],
                                   [node |-> r.val, at |-> "left"])
                       ELSE SubSeq(stack, 1, Len(stack) - 1)
    /\ Len(stack') <= MaxDepth
    /\ UNCHANGED <<mem, event, pc, dump, queue, visited, reads, fx, wf, outputVars>>

\* vad_iterator: read the right child, log a failure, descend if non-zero
IterRight ==
    /\ pc = "iter" /\ stack # <<>> /\ Top.at = "right"
    /\ LET r == vmi_read_addr_va(Top.node, RightField)
       IN  /\ log' = IF r.ok THEN log ELSE Append(log, MsgRight)
           /\ stack' = IF r.val # NullPtr
                       THEN Append(SetTop("return"), Frame(r.val, "left"))
                       ELSE Pop
    /\ Len(stack') <= MaxDepth
    /\ UNCHANGED <<mem, event, pc, dump, queue, visited, reads, fx, wf, outputVars>>

\* vad_iterator: return after the call on the right child
IterReturn ==
    /\ pc = "iter" /\ stack # <<>> /\ Top.at = "return"
    /\ stack' = Pop
    /\ UNCHANGED <<mem, event, pc, dump, log, queue, visited, reads, fx, wf, outputVars>>

\* mutant: a dump without segments is not queued
QueueVadsToDumpIfAny ==
    /\ pc = "iter" /\ stack = <<>>
    /\ queue' = IF dump.segment_count > 0 THEN Append(queue, dump) ELSE queue
    /\ pc' = "done"
    /\ UNCHANGED <<mem, event, stack, dump, log, visited, reads, fx, wf, outputVars>>

\* vad_dump_process after vad_iterator returned: queue_vads_to_dump(dump)
QueueVadsToDump ==
    /\ pc = "iter" /\ stack = <<>>
    /\ queue' = Append(queue, dump)
    /\ pc' = "done"
    /\ UNCHANGED <<mem, event, stack, dump, log, visited, reads, fx, wf, outputVars>>

\* vad_iterator calls itself with MaxDepth activations already on the C
\* stack: the recursion has no bound of its own, the stack has
StackOverflow ==
    /\ pc = "iter" /\ stack # <<>> /\ Len(stack) = MaxDepth
    /\ \/ Top.at = "left" /\ vmi_read_addr_va(Top.node, LeftField).val # NullPtr
       \/ Top.at = "right" /\ vmi_read_addr_va(Top.node, RightField).val # NullPtr
    /\ pc' = "overflow"
    /\ UNCHANGED <<mem, event, stack, dump, log, queue, visited, reads, fx, wf, outputVars>>

WalkNext ==
    \/ VadDumpProcessEnter
    \/ IterLeft
    \/ IterVisit
    \/ IterRight
    \/ IterReturn
    \/ QueueVadsToDump

------------------------------------------------------------------------------
(* extract_field_value, statement by statement *)

Shr(x, k) == x \div Pow2(k)

RECURSIVE BitAnd(_, _, _)
BitAnd(a, b, n) ==
    IF n = 0 THEN 0
    ELSE (a % 2) * (b % 2) + 2 * BitAnd(a \div 2, b \div 2, n - 1)

\* 1ULL << n: defined for n below the word width; a shift by the full width
\* is undefined, and a build either wraps the count (giving 1) or shifts the
\* bit out (giving 0)
ShlOne(n) == IF n < AddrBits THEN {Pow2(n)} ELSE {1, 0}

\* (1ULL << (end - start + 1)) - 1, in word arithmetic
FieldMasks(start, end) ==
    {(one - 1 + AddrMod) % AddrMod : one \in ShlOne(WordSub(end, start) + 1)}

FieldIdle == fx = [at |-> "idle", word |-> 0, packed |-> 0, start |-> 0, end |-> 0, mask |-> 0]

\* packed >>= start;
FieldShift ==
    /\ fx.at = "call"
    /\ fx' = [fx EXCEPT !.packed = Shr(fx.packed, fx.start), !.at = "shifted"]
    /\ UNCHANGED <<walkVars, wf, outputVars>>

\* gint64 mask = (1ULL << (end - start + 1)) - 1;
FieldMask ==
    /\ fx.at = "shifted"
    /\ \E m \in FieldMasks(fx.start, fx.end) :
          fx' = [fx EXCEPT !.mask = m, !.at = "masked"]
    /\ UNCHANGED <<walkVars, wf, outputVars>>

\* packed &= mask; return packed;
FieldAnd ==
    /\ fx.at = "masked"
    /\ fx' = [fx EXCEPT !.packed = BitAnd(fx.packed, fx.mask, AddrBits), !.at = "ret"]
    /\ UNCHANGED <<walkVars, wf, outputVars>>

------------------------------------------------------------------------------
(* write_file, statement by statement *)

IntBits == 6
SizeBits == 7
IntMod == Pow2(IntBits)
SizeMod == Pow2(SizeBits)

\* conversion of a size_t value to int
ToInt(x) ==
    LET y == x % IntMod
    IN  IF y >= IntMod \div 2 THEN y - IntMod ELSE y

\* -(written + 10), computed in size_t
NegPadded(written) == (SizeMod - ((written + 10) % SizeMod)) % SizeMod

\* the value write_file returns when fopen succeeded
WriteResult(len, written, ferr) ==
    IF written # len
    THEN IF ~ferr THEN ToInt(NegPadded(written)) ELSE -2
    ELSE ToInt(written)

WriteIdle ==
    wf = [at |-> "idle", len |-> 0, out_f |-> "null", written |-> 0,
          ferr |-> FALSE, rc |-> -9]

\* FILE *out_f = fopen(fn, "w"); fails
WfFopenFail ==
    /\ wf.at = "fopen"
    /\ wf' = [wf EXCEPT !.rc = -1, !.at = "out"]
    /\ UNCHANGED <<walkVars, fx, outputVars>>

\* FILE *out_f = fopen(fn, "w"); succeeds
WfFopenOk ==
    /\ wf.at = "fopen"
    /\ wf' = [wf EXCEPT !.out_f = "open", !.at = "fwrite"]
    /\ UNCHANGED <<walkVars, fx, outputVars>>

\* written = fwrite(data, 1, len, out_f); and the branches on its result
WfFwrite ==
    /\ wf.at = "fwrite"
    /\ \E written \in 0 .. wf.len, ferr \in BOOLEAN :
          /\ ferr => written < wf.len
          /\ wf' = [wf EXCEPT !.written = written, !.ferr = ferr,
                              !.rc = WriteResult(wf.len, written, ferr),
                              !.at = "close"]
    /\ UNCHANGED <<walkVars, fx, outputVars>>

\* _close: fclose(out_f);
WfClose ==
    /\ wf.at = "close"
    /\ wf' = [wf EXCEPT !.out_f = "closed", !.at = "out"]
    /\ UNCHANGED <<walkVars, fx, outputVars>>

\* out: return rc;
WfReturn ==
    /\ wf.at = "out"
    /\ wf' = [wf EXCEPT !.at = "done"]
    /\ UNCHANGED <<walkVars, fx, outputVars>>

------------------------------------------------------------------------------
(* volatility_callback_vaddump *)

MaxCalls == 2

NoCmd == [kind |-> "none", seq |-> 0, pid |-> 0]
NoFile == [kind |-> "absent", rip |-> 0]
FileKeys == (0 .. MaxCalls) \X {4, 8}

OutputIdle ==
    /\ dump_count = 0
    /\ cb = [at |-> "idle", pid |-> 0, rip |-> 0, rc |-> 0]
    /\ loop = "next_event"
    /\ shell = NoCmd
    /\ files = [k \in FileKeys |-> NoFile]
    /\ calls = 0
    /\ artifacts = {}

\* one entry of the history: what the callback did, in which invocation
\* (call), under which sequence number and pid, and as which step (n)
Artifact(kind, seq, pid) ==
    [call |-> calls - 1, kind |-> kind, seq |-> seq, pid |-> pid,
     n |-> Cardinality(artifacts)]

\* the event loop delivers a W->X event to the callback
CallbackEnter ==
    /\ loop = "next_event" /\ cb.at = "idle"
    /\ calls < MaxCalls
    /\ \E e \in {[pid |-> 4, rip |-> 1], [pid |-> 8, rip |-> 6]} :
          cb' = [at |-> "vaddump", pid |-> e.pid, rip |-> e.rip, rc |-> 0]
    /\ loop' = "running"
    /\ calls' = calls + 1
    /\ UNCHANGED <<walkVars, fx, wf, dump_count, shell, files, artifacts>>

\* queue_and_wait_for_shell_cmd(cmd, filepath): the command is handed over
\* and the caller waits until it has run
QueueAndWait(kind, seq, pid) ==
    /\ shell' = [kind |-> kind, seq |-> seq, pid |-> pid]
    /\ loop' = "shell_cmd"

\* volatility_vaddump(pid, cmd_prefix, dump_count) up to the wait
VolatilityVaddump ==
    /\ cb.at = "vaddump" /\ loop = "running"
    /\ QueueAndWait("vaddump", dump_count, cb.pid)
    /\ artifacts' = artifacts \cup {Artifact("vaddump", dump_count, cb.pid)}
    /\ cb' = [cb EXCEPT !.at = "wait_vaddump"]
    /\ UNCHANGED <<walkVars, fx, wf, dump_count, files, calls>>

\* volatility_vadinfo(pid, cmd_prefix, dump_count) up to the wait
VolatilityVadinfo ==
    /\ cb.at = "vadinfo" /\ loop = "running"
    /\ QueueAndWait("vadinfo", dump_count, cb.pid)
    /\ artifacts' = artifacts \cup {Artifact("vadinfo", dump_count, cb.pid)}
    /\ cb' = [cb EXCEPT !.at = "wait_vadinfo"]
    /\ UNCHANGED <<walkVars, fx, wf, dump_count, files, calls>>

\* what the vadinfo command may leave at its --output-file
VadinfoOutputs == {"json", "garbage", "absent"}

\* mutant: the callback calls add_rip_to_json right after volatility_vaddump
CaptureCmdThenJson ==
    /\ shell.kind # "none" /\ loop = "shell_cmd"
    /\ \/ UNCHANGED files
       \/ /\ shell.kind = "vadinfo"
          /\ \E k \in VadinfoOutputs :
                files' = [files EXCEPT ![<<shell.seq, shell.pid>>] =
                                          [kind |-> k, rip |-> 0]]
    /\ artifacts' = artifacts \cup {Artifact(shell.kind \o "_done", shell.seq, shell.pid)}
    /\ shell' = NoCmd
    /\ loop' = "running"
    /\ cb' = [cb EXCEPT !.at = "json"]
    /\ UNCHANGED <<walkVars, fx, wf, dump_count, calls>>

\* capture_cmd(cmd, fn): popen fails and nothing runs, or the command runs
\* (its output captured or not) and, for vadinfo, leaves its json file; the
\* waiting volatility_vaddump / volatility_vadinfo then returns to the callback
CaptureCmd ==
    /\ shell.kind # "none" /\ loop = "shell_cmd"
    /\ \/ UNCHANGED files
       \/ /\ shell.kind = "vadinfo"
          /\ \E k \in VadinfoOutputs :
                files' = [files EXCEPT ![<<shell.seq, shell.pid>>] =
                                          [kind |-> k, rip |-> 0]]
    /\ artifacts' = artifacts \cup {Artifact(shell.kind \o "_done", shell.seq, shell.pid)}
    /\ shell' = NoCmd
    /\ loop' = "running"
    /\ cb' = [cb EXCEPT !.at = IF shell.kind = "vaddump" THEN "vadinfo" ELSE "json"]
    /\ UNCHANGED <<walkVars, fx, wf, dump_count, calls>>

\* the lengths json_node_to_data may give for the rewritten document
JsonLens == {2, IntMod \div 2}

\* the vadinfo.<dump_count>.<pid>.json of the running invocation
JsonKey == <<dump_count, cb.pid>>

\* add_rip_to_json(pid, dump_count, rip) up to its call of write_file:
\* read_json_file fails (rc = -1; goto out), or the document is parsed, "rip"
\* is set and write_file is called with the serialised document
AddRipToJson ==
    /\ cb.at = "json" /\ loop = "running"
    /\ \/ /\ cb' = [cb EXCEPT !.rc = -1, !.at = "incr"]
          /\ UNCHANGED wf
       \/ /\ files[JsonKey].kind = "json"
          /\ cb' = [cb EXCEPT !.at = "write_file"]
          /\ \E len \in JsonLens :
                wf' = [at |-> "fopen", len |-> len, out_f |-> "null", written |-> 0,
                       ferr |-> FALSE, rc |-> -9]
    /\ artifacts' = artifacts \cup {Artifact("add_rip", dump_count, cb.pid)}
    /\ UNCHANGED <<walkVars, fx, dump_count, loop, shell, files, calls>>

\* what write_file left at the path: the file as it was when fopen failed,
\* the whole document with "rip" when every byte was written, a truncated
\* file otherwise
FileAfterWrite(old, w, rip) ==
    IF w.out_f = "null" THEN old
    ELSE IF w.written = w.len THEN [kind |-> "json", rip |-> rip]
    ELSE [kind |-> "partial", rip |-> 0]

\* rc = write_file(filepath, data, len); ... out: return rc;
AddRipToJsonOut ==
    /\ cb.at = "write_file" /\ loop = "running" /\ wf.at = "done"
    /\ cb' = [cb EXCEPT !.rc = wf.rc, !.at = "incr"]
    /\ files' = [files EXCEPT ![JsonKey] = FileAfterWrite(@, wf, cb.rip)]
    /\ wf' = [at |-> "idle", len |-> 0, out_f |-> "null", written |-> 0,
              ferr |-> FALSE, rc |-> -9]
    /\ UNCHANGED <<walkVars, fx, dump_count, loop, shell, calls, artifacts>>

\* mutant: the counter advances only after a successful json update
IncrementOnSuccess ==
    /\ cb.at = "incr" /\ loop = "running"
    /\ dump_count' = IF cb.rc >= 0 THEN dump_count + 1 ELSE dump_count
    /\ artifacts' = artifacts \cup {Artifact("incr", dump_count, cb.pid)}
    /\ cb' = [cb EXCEPT !.at = "idle"]
    /\ loop' = "next_event"
    /\ UNCHANGED <<walkVars, fx, wf, shell, files, calls>>

\* dump_count++; and the return to the event loop
Increment ==
    /\ cb.at = "incr" /\ loop = "running"
    /\ dump_count' = dump_count + 1
    /\ artifacts' = artifacts \cup {Artifact("incr", dump_count, cb.pid)}
    /\ cb' = [cb EXCEPT !.at = "idle"]
    /\ loop' = "next_event"
    /\ UNCHANGED <<walkVars, fx, wf, shell, files, calls>>

------------------------------------------------------------------------------
(* Guest memory the walk starts from *)

EmptyNode == [leftchild |-> 0, rightchild |-> 0, startingvpn |-> 0, endingvpn |-> 0]

Children(m, n) == {m[n].leftchild, m[n].rightchild} \ {NullPtr, Unreadable}

\* nodes the walk can reach from the root
RECURSIVE ReachFrom(_, _, _)
ReachFrom(m, S, k) ==
    IF k = 0 THEN S
    ELSE ReachFrom(m, S \cup UNION {Children(m, n) : n \in S}, k - 1)
Reachable(m) == ReachFrom(m, {VadRoot}, MaxNodes)

Sides == {"leftchild", "rightchild"}

\* (startingvpn, endingvpn) pairs a node may hold: each skip reason of
\* handle_node, and ranges of every size including one with end < start
VpnPairs ==
    {<<Unreadable, MaxVpn>>, <<1, Unreadable>>, <<0, MaxVpn>>, <<1, 0>>,
     <<MaxVpn + 1, MaxVpn>>, <<1, MaxVpn + 1>>,
     <<1, MaxVpn>>, <<MaxVpn, 1>>, <<MaxVpn, MaxVpn>>}

\* the pairs used where the pointers of the tree vary freely: a node whose
\* ending VPN cannot be read, one whose start address is zero, and one that
\* yields a segment
WalkVpnPairs == {<<1, Unreadable>>, <<MaxVpn + 1, MaxVpn>>, <<1, MaxVpn>>}

NodeOf(l, r, v) ==
    [leftchild |-> l, rightchild |-> r, startingvpn |-> v[1], endingvpn |-> v[2]]

Events == {[pid |-> 4, rip |-> 1], [pid |-> 8, rip |-> 6]}

InitCommon ==
    /\ event \in Events
    /\ pc = "entry"
    /\ stack = <<>>
    /\ dump = [pid |-> 0, rip |-> 0, segment_count |-> 0, segments |-> [i \in Slots |-> {}]]
    /\ log = <<>>
    /\ queue = <<>>
    /\ visited = <<>>
    /\ reads = <<>>
    /\ FieldIdle
    /\ WriteIdle
    /\ OutputIdle

\* A tree laid out at addresses 1..MaxNodes, the root at VadRoot: par[n] is
\* the parent of node n (0 when address n is unused) and side[n] the pointer
\* of the parent that holds n.  Parents sit at lower addresses, the used
\* addresses are 1..k, and no pointer holds two nodes.
Layouts ==
    {y \in [2 .. MaxNodes -> (0 .. (MaxNodes - 1)) \X Sides] :
        /\ \A n \in 2 .. MaxNodes : y[n][1] < n
        /\ \A n \in 2 .. MaxNodes : y[n][1] = 0 => y[n][2] = "leftchild"
        /\ \A n \in 3 .. MaxNodes : y[n][1] # 0 => y[n - 1][1] # 0
        /\ \A n, k \in 2 .. MaxNodes : (n # k /\ y[n][1] # 0) => y[n] # y[k]}

Used(y) == {VadRoot} \cup {n \in 2 .. MaxNodes : y[n][1] # 0}
\* the child pointers of used nodes that hold no node
FreeSlots(y) == {s \in Used(y) \X Sides : \A n \in 2 .. MaxNodes : y[n] # s}

\* the pointer s = (node, side) of layout y, unreadable for the slots in unr
PointerAt(y, unr, s) ==
    IF \E c \in 2 .. MaxNodes : y[c] = s THEN CHOOSE c \in 2 .. MaxNodes : y[c] = s
    ELSE IF s \in unr THEN Unreadable
    ELSE NullPtr

ShapeOf(y, unr) ==
    [n \in Nodes |->
        NodeOf(PointerAt(y, unr, <<n, "leftchild">>),
               PointerAt(y, unr, <<n, "rightchild">>), <<0, 0>>)]

\* the pointer layouts of all trees of at most MaxNodes nodes, any child
\* pointer that holds no node being either null or unreadable
Shapes == UNION {{ShapeOf(y, unr) : unr \in SUBSET FreeSlots(y)} : y \in Layouts}

\* the same with every pointer readable
ReadableShapes == {ShapeOf(y, {}) : y \in Layouts}

\* shape s with the VPN pairs v stored at its reachable nodes
Fill(s, v) ==
    [n \in Nodes |-> IF n \in DOMAIN v
                     THEN NodeOf(s[n].leftchild, s[n].rightchild, v[n])
                     ELSE s[n]]

Init ==
    /\ \E s \in Shapes : \E v \in [Reachable(s) -> WalkVpnPairs] : mem = Fill(s, v)
    /\ InitCommon

Next == WalkNext

Spec == Init /\ [][Next]_vars

------------------------------------------------------------------------------
(* Trees with readable pointers and every kind of VPN pair *)

InitNode ==
    /\ \E s \in ReadableShapes : \E v \in [Reachable(s) -> VpnPairs] : mem = Fill(s, v)
    /\ InitCommon
    /\ event.pid = 4

NextNode == WalkNext

SpecNode == InitNode /\ [][NextNode]_vars

------------------------------------------------------------------------------
(* Trees ordered as a binary search tree on the starting VPN *)

Subtree(m, c) == IF c \in Nodes THEN ReachFrom(m, {c}, MaxNodes) ELSE {}

\* f orders the tree: left descendants below, right descendants above
BstOn(m, f) ==
    \A n \in Reachable(m) :
        /\ \A d \in Subtree(m, m[n].leftchild) : f[d] < f[n]
        /\ \A d \in Subtree(m, m[n].rightchild) : f[d] > f[n]

IsBST(m) == BstOn(m, [n \in Nodes |-> m[n].startingvpn])

\* starting VPNs below and above the largest one whose address does not wrap;
\* a node's range is skipped or ends at MaxVpn
BstVpnPairs == (0 .. (MaxVpn + 2)) \X {Unreadable, MaxVpn}

InitBST ==
    /\ \E s \in ReadableShapes : \E v \in [Reachable(s) -> BstVpnPairs] :
          /\ IsBST(Fill(s, v))
          /\ mem = Fill(s, v)
    /\ InitCommon
    /\ event.pid = 4

NextBST == WalkNext

SpecBST == InitBST /\ [][NextBST]_vars

------------------------------------------------------------------------------
(* Trees, and trees with one child pointer bent back to an ancestor *)

\* a free child pointer of s and a node above it (or the node itself)
BackEdges(s) ==
    {e \in Reachable(s) \X Sides \X Reachable(s) :
        /\ s[e[1]][e[2]] \in {NullPtr, Unreadable}
        /\ e[1] \in ReachFrom(s, {e[3]}, MaxNodes)}

CyclicShapes ==
    UNION {{[s EXCEPT ![e[1]][e[2]] = e[3]] : e \in BackEdges(s)} : s \in ReadableShapes}

\* every node yields a segment until the cap is reached
GraphVpnPairs == {<<1, MaxVpn>>}

InitGraph ==
    /\ \E s \in Shapes \cup CyclicShapes :
          \E v \in [Reachable(s) -> GraphVpnPairs] : mem = Fill(s, v)
    /\ InitCommon
    /\ event.pid = 4

NextGraph == WalkNext \/ StackOverflow

SpecGraph == InitGraph /\ [][NextGraph]_vars

------------------------------------------------------------------------------
(* The other entry points, each from its own start *)

WalkIdle ==
    /\ mem = [n \in Nodes |-> EmptyNode]
    /\ event = [pid |-> 4, rip |-> 1]
    /\ pc = "idle"
    /\ stack = <<>>
    /\ dump = [pid |-> 0, rip |-> 0, segment_count |-> 0, segments |-> [i \in Slots |-> {}]]
    /\ log = <<>>
    /\ queue = <<>>
    /\ visited = <<>>
    /\ reads = <<>>

\* extract_field_value(packed, start, end) for a bit range inside the word
InitField ==
    /\ WalkIdle /\ WriteIdle /\ OutputIdle
    /\ \E w \in Words, s \in 0 .. (AddrBits - 1), e \in 0 .. (AddrBits - 1) :
          /\ s <= e
          /\ fx = [at |-> "call", word |-> w, packed |-> w, start |-> s, end |-> e, mask |-> 0]

NextField == FieldShift \/ FieldMask \/ FieldAnd

SpecField == InitField /\ [][NextField]_vars

\* write_file(fn, data, len) for every len a size_t holds
InitWrite ==
    /\ WalkIdle /\ FieldIdle /\ OutputIdle
    /\ \E len \in 0 .. (SizeMod - 1) :
          wf = [at |-> "fopen", len |-> len, out_f |-> "null", written |-> 0,
                ferr |-> FALSE, rc |-> -9]

NextWrite == WfFopenFail \/ WfFopenOk \/ WfFwrite \/ WfClose \/ WfReturn

SpecWrite == InitWrite /\ [][NextWrite]_vars

\* the event loop with volatility_callback_vaddump as its callback
InitVol == WalkIdle /\ FieldIdle /\ WriteIdle /\ OutputIdle

NextVol ==
    \/ CallbackEnter
    \/ VolatilityVaddump
    \/ VolatilityVadinfo
    \/ CaptureCmd
    \/ AddRipToJson
    \/ WfFopenFail \/ WfFopenOk \/ WfFwrite \/ WfClose \/ WfReturn
    \/ AddRipToJsonOut
    \/ Increment

SpecVol == InitVol /\ [][NextVol]_vars

------------------------------------------------------------------------------
(* Properties of the VAD walk *)

\* vpn << VpnShift in word arithmetic
BaseOf(vpn) == (vpn * Pow2(VpnShift)) % AddrMod

\* the nodes of the tree under pointer c: left subtree, node, right subtree
RECURSIVE InOrder(_, _)
InOrder(m, c) ==
    IF c \in Nodes
    THEN InOrder(m, m[c].leftchild) \o <<c>> \o InOrder(m, m[c].rightchild)
    ELSE <<>>

SegAt(d, i) == CHOOSE x \in d.segments[i] : TRUE
CountOf(seq, x) == Cardinality({i \in 1 .. Len(seq) : seq[i] = x})
IsPrefix(a, b) == Len(a) <= Len(b) /\ SubSeq(b, 1, Len(a)) = a

Ascending(d) ==
    \A i, j \in 0 .. (d.segment_count - 1) :
        i < j => SegAt(d, i).base_va < SegAt(d, j).base_va

NoWrap(m) == \A n \in Reachable(m) : m[n].startingvpn <= MaxVpn

\* C1 as stated: on a tree ordered as a binary search tree on the starting
\* VPN, the segments appended so far are in strictly ascending base_va order.
C1_AscendingOnAnyBst == IsBST(mem) => Ascending(dump)

\* C1 amended: on a tree ordered as a binary search tree on the starting VPN
\* whose starting VPNs are all small enough that vpn << VpnShift does not
\* wrap, the segments appended so far are in strictly ascending base_va order.
C1_AscendingWithoutWrap == (IsBST(mem) /\ NoWrap(mem)) => Ascending(dump)

\* a finished walk of a three-node tree with both children under the root,
\* no wrapping VPN, and two segments in the dump
C1_Witness ==
    /\ pc = "done"
    /\ IsBST(mem) /\ NoWrap(mem)
    /\ mem[VadRoot].leftchild \in Nodes /\ mem[VadRoot].rightchild \in Nodes
    /\ dump.segment_count = 2
    /\ SegAt(dump, 0).base_va = BaseOf(mem[mem[VadRoot].leftchild].startingvpn)

\* a node whose start and end are readable and non-zero after the shift
Eligible(m, n) ==
    /\ m[n].startingvpn # Unreadable /\ m[n].endingvpn # Unreadable
    /\ BaseOf(m[n].startingvpn) # 0 /\ BaseOf(m[n].endingvpn) # 0

EligibleSeq(m) == SelectSeq(InOrder(m, VadRoot), LAMBDA n : Eligible(m, n))

\* index in the in-order sequence of the k-th eligible node
PosOfEligible(m, k) ==
    CHOOSE p \in 1 .. Len(InOrder(m, VadRoot)) :
        /\ Eligible(m, InOrder(m, VadRoot)[p])
        /\ Cardinality({q \in 1 .. p : Eligible(m, InOrder(m, VadRoot)[q])}) = k

ReadFailureLogged == \E i \in 1 .. Len(log) : log[i] \notin {MsgCap, MsgLeft, MsgRight}

\* C4: every segment's size is at most its va_size (the bytes asked for);
\* size = va_size when the guest read returned all of them; when it returned
\* fewer, size is the number of bytes read and a read failure was logged.
C4_SizeTracksRead ==
    \A i \in 0 .. (dump.segment_count - 1) :
        LET seg == SegAt(dump, i)
            rd == reads[i + 1]
        IN  /\ seg.va_size = rd.asked
            /\ seg.size <= seg.va_size
            /\ rd.got = rd.asked => seg.size = seg.va_size
            /\ rd.got < rd.asked => (seg.size = rd.got /\ ReadFailureLogged)

\* C5: the walk of a finite tree always runs to its end, nothing is queued
\* before that, and at the end exactly one dump is queued: the one built by
\* this invocation, with the pid and rip of the triggering event.
C5_OneJobPerInvocation ==
    /\ pc # "done" => (queue = <<>> /\ ENABLED WalkNext)
    /\ pc = "done" =>
          /\ Len(queue) = 1
          /\ queue[1] = dump
          /\ queue[1].pid = event.pid /\ queue[1].rip = event.rip

\* a job queued after a short read, a failed pointer read and a capped node
C5_Witness ==
    /\ pc = "done" /\ Len(queue) = 1
    /\ \E i \in 1 .. Len(reads) : reads[i].got < reads[i].asked
    /\ CountOf(log, MsgCap) >= 1
    /\ CountOf(log, MsgLeft) + CountOf(log, MsgRight) >= 1

\* C6: a failed read of a child pointer is logged and the walk goes on
\* without that subtree: the visitor is called on the nodes reachable through
\* readable pointers, in in-order, each failed left (right) read logged once.
C6_WalkSurvivesUnreadableChild ==
    /\ IsPrefix(visited, InOrder(mem, VadRoot))
    /\ pc = "done" =>
          /\ visited = InOrder(mem, VadRoot)
          /\ CountOf(log, MsgLeft) =
                Cardinality({n \in Reachable(mem) : mem[n].leftchild = Unreadable})
          /\ CountOf(log, MsgRight) =
                Cardinality({n \in Reachable(mem) : mem[n].rightchild = Unreadable})

\* a finished walk whose root has an unreadable left child and a right child
\* that was still visited
C6_Witness ==
    /\ pc = "done"
    /\ mem[VadRoot].leftchild = Unreadable
    /\ mem[VadRoot].rightchild \in Nodes
    /\ visited[1] = VadRoot
    /\ visited[2] = mem[VadRoot].rightchild
    /\ CountOf(log, MsgLeft) >= 1

AtVisit == pc = "iter" /\ stack # <<>> /\ stack[Len(stack)].at = "visit"
VisitNode == stack[Len(stack)].node

OldSegmentsKept ==
    \A i \in 0 .. (dump.segment_count - 1) : dump'.segments[i] = dump.segments[i]

\* C9 as stated: the visitor leaves the dump unchanged when the cap is
\* reached or the node's starting or ending VPN is zero or unreadable, and
\* otherwise grows segment_count by exactly one.
C9_SkipOnZeroVpn ==
    [][AtVisit =>
         IF \/ dump.segment_count >= SEG_COUNT_MAX
            \/ mem[VisitNode].startingvpn \in {0, Unreadable}
            \/ mem[VisitNode].endingvpn \in {0, Unreadable}
         THEN dump' = dump
         ELSE dump'.segment_count = dump.segment_count + 1 /\ OldSegmentsKept]_vars

\* C9 amended: the visitor leaves the dump unchanged when the cap is reached,
\* the starting or ending VPN is unreadable, or the start or end address (the
\* VPN shifted left, in word arithmetic) is zero; otherwise it grows
\* segment_count by exactly one and keeps the existing entries.
C9_SkipOnZeroAddress ==
    [][AtVisit =>
         IF \/ dump.segment_count >= SEG_COUNT_MAX
            \/ mem[VisitNode].startingvpn = Unreadable
            \/ mem[VisitNode].endingvpn = Unreadable
            \/ BaseOf(mem[VisitNode].startingvpn) = 0
            \/ BaseOf(mem[VisitNode].endingvpn) = 0
         THEN dump' = dump
         ELSE dump'.segment_count = dump.segment_count + 1 /\ OldSegmentsKept]_vars

\* the visitor has just skipped a node whose starting VPN is not zero but whose
\* start address is, after an earlier node produced a segment
C9_Witness ==
    /\ pc = "iter" /\ stack # <<>> /\ stack[Len(stack)].at = "right"
    /\ visited # <<>> /\ visited[Len(visited)] = stack[Len(stack)].node
    /\ mem[stack[Len(stack)].node].startingvpn = MaxVpn + 1
    /\ mem[stack[Len(stack)].node].endingvpn = MaxVpn
    /\ dump.segment_count = 1

------------------------------------------------------------------------------
(* Properties of the output path and of the bit-field extraction *)

\* C3: every name built by the k-th invocation of the callback (k from 0)
\* carries sequence number k, whatever its shell commands and its json update
\* did, and dump_count is the number of invocations that have returned.
C3_SequenceFollowsInvocations ==
    /\ \A a \in artifacts : a.seq = a.call
    /\ dump_count = IF cb.at = "idle" THEN calls ELSE calls - 1

\* the second invocation reaches its json update with sequence number 1 after
\* the first one left a partly written json behind
C3_Witness ==
    /\ calls = 2 /\ cb.at = "incr"
    /\ \E a, b \in artifacts :
          /\ a.call = 0 /\ a.kind = "add_rip" /\ files[<<0, a.pid>>].kind = "partial"
          /\ b.call = 1 /\ b.kind = "add_rip" /\ b.seq = 1

FieldWidth == fx.end - fx.start + 1

\* C7: extracting bits start..end of a word whose only set bits are v shifted
\* left by start returns v, for every v below 2^(end-start+1), and the result
\* of any extraction is below 2^(end-start+1).
C7_RoundTrip ==
    fx.at = "ret" =>
       /\ \A v \in 0 .. (Pow2(FieldWidth) - 1) :
             fx.word = v * Pow2(fx.start) => fx.packed = v
       /\ fx.packed < Pow2(FieldWidth)

\* C8: while the callback is active the event loop thread either runs or
\* waits inside enqueue on a full dump queue; outside it waits for the next
\* event. It never waits for anything else.
C8_OnlyTwoSuspensionPoints == loop \in {"running", "next_event", "enqueue_full"}

WfOpened == wf.out_f # "null"

\* C10: write_file returns -1 if fopen fails, -2 if fwrite fails with ferror
\* set, -(written + 10) on a short write without error and written when all
\* len bytes were written; the result is >= 0 exactly when the whole buffer was
\* written, and the file is closed whenever it was opened.
C10_ReturnCodes ==
    wf.at = "done" =>
       /\ ~WfOpened => wf.rc = -1
       /\ (WfOpened /\ wf.ferr) => wf.rc = -2
       /\ (WfOpened /\ ~wf.ferr /\ wf.written < wf.len) => wf.rc = -(wf.written + 10)
       /\ (WfOpened /\ wf.written = wf.len) => wf.rc = wf.written
       /\ (wf.rc >= 0) <=> (WfOpened /\ wf.written = wf.len)
       /\ WfOpened => wf.out_f = "closed"

\* the steps invocation k has taken so far
StepsOf(k) == {a \in artifacts : a.call = k}
Did(k, kind) == \E a \in StepsOf(k) : a.kind = kind
Before(k, x, y) == \A a, b \in StepsOf(k) : (a.kind = x /\ b.kind = y) => a.n < b.n

CallbackOrder ==
    <<"vaddump", "vaddump_done", "vadinfo", "vadinfo_done", "add_rip", "incr">>

Parents(m, c) == {e \in Reachable(m) \X Sides : m[e[1]][e[2]] = c}

\* every reachable node but the root is held by exactly one child pointer
IsTree(m) ==
    /\ Parents(m, VadRoot) = {}
    /\ \A c \in Reachable(m) \ {VadRoot} : Cardinality(Parents(m, c)) = 1

\* some reachable node is its own descendant
HasCycle(m) == \E n \in Reachable(m) : n \in ReachFrom(m, Children(m, n), MaxNodes)

VisitedOnceEach ==
    /\ \A n \in Reachable(mem) : CountOf(visited, n) = 1
    /\ \A i \in 1 .. Len(visited) : visited[i] \in Reachable(mem)

\* an upper bound on the steps the walk of a tree still has to take: four for
\* every node not yet entered, what is left of each activation on the stack,
\* and the steps of vad_dump_process around the walk
StageLeft(at) ==
    CASE at = "left" -> 4 [] at = "visit" -> 3 [] at = "right" -> 2 [] OTHER -> 1
RECURSIVE StackLeft(_)
StackLeft(st) ==
    IF st = <<>> THEN 0
    ELSE StageLeft(st[Len(st)].at) + StackLeft(SubSeq(st, 1, Len(st) - 1))
NotEntered(m, st, vis) ==
    Reachable(m) \ ({st[i].node : i \in 1 .. Len(st)} \cup {vis[i] : i \in 1 .. Len(vis)})
StepsLeft(m, p, st, vis) ==
    4 * Cardinality(NotEntered(m, st, vis)) + StackLeft(st)
      + (CASE p = "entry" -> 6 [] p = "iter" -> 1 [] OTHER -> 0)

\* C12: on a finite tree the walk terminates (every step brings its return
\* nearer, it is never stuck before it and never exhausts the stack) and has
\* then called the visitor exactly once on every node reachable through
\* readable non-zero child pointers, the root included, whether or not the
\* cap was reached on the way; on a structure whose child pointers form a
\* cycle the walk never returns: it always has a next step until the stack
\* is exhausted.
C12_WalkEndsOnTreesOnly ==
    /\ [](IsTree(mem) =>
             /\ pc # "overflow"
             /\ pc # "done" => ENABLED NextGraph
             /\ pc = "done" => VisitedOnceEach)
    /\ [][IsTree(mem) =>
             StepsLeft(mem', pc', stack', visited') < StepsLeft(mem, pc, stack, visited)]_vars
    /\ [](HasCycle(mem) =>
             /\ pc # "done"
             /\ pc # "overflow" => ENABLED NextGraph)

\* the walk of a full tree has returned; the cap was reached before the last
\* node, which was visited all the same
C12_Witness ==
    /\ pc = "done" /\ IsTree(mem)
    /\ Len(visited) = MaxNodes
    /\ dump.segment_count = SEG_COUNT_MAX
    /\ CountOf(log, MsgCap) >= 1

WriteFailed(w) == w.out_f = "null" \/ w.written # w.len

\* C13: add_rip_to_json returns -1 and leaves the json file as it was when
\* the file cannot be read or parsed (which is what happens whenever the file
\* is absent or not json); once the document is parsed it returns the
\* negative code of write_file when the write failed, and otherwise a
\* non-negative value with the file rewritten to carry the event's rip.
C13_JsonUpdateResult ==
    [][/\ (cb.at = "json" /\ files[JsonKey].kind # "json") => cb'.at = "incr"
       /\ (cb.at = "json" /\ cb'.at = "incr") => (cb'.rc = -1 /\ files' = files)
       /\ (cb.at = "write_file" /\ cb'.at = "incr") =>
             IF WriteFailed(wf)
             THEN cb'.rc < 0 /\ cb'.rc = wf.rc
             ELSE cb'.rc >= 0 /\ files'[JsonKey] = [kind |-> "json", rip |-> cb.rip]]_vars

====
